---- MODULE Spec2Model ----
(***************************************************************************)
(* aso: OptimisationProblem (evaluation contract, finite differences,      *)
(* Lagrange function), OptimisationResult / OptimiserState, and the        *)
(* Optimiser loop that the test-suite drives.                              *)
(*                                                                         *)
(* Numbers.  Design variables are floating point numbers.  They are        *)
(* modelled as integers counted in grid units and rounded, after every     *)
(* arithmetic operation on a design vector, to MantBits significant bits   *)
(* (round to nearest, ties to even), which is IEEE-754 arithmetic with a   *)
(* short significand.  Values returned by the user's callables are exact   *)
(* integers, and quotients are kept as exact fractions num/den.            *)
(***************************************************************************)
EXTENDS Integers, Sequences, FiniteSets, TLC

\* ------------------------------------------------------------------ bounds
MaxM == 1          \* most inequality constraints of a problem
MaxMe == 1         \* most equality constraints of a problem
MaxSel == 2        \* longest selection list
MaxLm == 3         \* longest multiplier vector
MaxCalls == 2      \* cap of grad_constraints_evaluations
MantBits == 5      \* significand bits of the modelled floating point
MaxIter == 3       \* largest iteration_limit handed to optimise

\* default finite difference step (1e-6) in grid units: like 1e-6 it is no
\* power of two
dx_default == 5

VARIABLES
  problem,                       \* the OptimisationProblem's private attributes
  grad_constraints_evaluations,  \* its public counter
  pc,                            \* caller of the problem: "idle" | "returned"
  call,                          \* the call that just returned (or raised)
  caller_x,                      \* the array the test passes to Optimiser(...)
  x_own,                         \* an array owned by the optimiser (if it copies)
  x_ref,                         \* which array Optimiser.x names: "caller" | "own"
  x_initial,                     \* contents of the caller's array at construction
  caller_wrote,                  \* contents the caller itself last stored in its array
  opt_pc,                        \* "constructed" | "running" | "done"
  algorithm,                     \* algorithm name of the current run
  iteration_limit,               \* its iteration limit
  history,                       \* Optimiser's sequence of OptimisationResult
  iterations                     \* value returned by optimise (-1: none yet)

vars == <<problem, grad_constraints_evaluations, pc, call, caller_x, x_own, x_ref,
          x_initial, caller_wrote, opt_pc, algorithm, iteration_limit, history,
          iterations>>

problem_vars == <<problem, grad_constraints_evaluations, pc, call>>
optimiser_vars == <<caller_x, x_own, x_ref, x_initial, caller_wrote, opt_pc,
                    algorithm, iteration_limit, history, iterations>>

\* ------------------------------------------------------- optional values
None == [some |-> FALSE, v |-> <<>>]
Some(s) == [some |-> TRUE, v |-> s]
\* `lst or []`
OrEmpty(o) == IF o.some THEN o.v ELSE <<>>

\* ------------------------------------------------ floating point numbers
Abs(v) == IF v < 0 THEN -v ELSE v

RECURSIVE Pow2(_)
Pow2(k) == IF k = 0 THEN 1 ELSE 2 * Pow2(k - 1)

\* spacing of the representable numbers around magnitude a
RECURSIVE Ulp(_, _)
Ulp(a, u) == IF a < Pow2(MantBits) * u THEN u ELSE Ulp(a, 2 * u)

\* the representable number nearest to v (ties to even)
fl(v) ==
  LET a == Abs(v)
      u == Ulp(a, 1)
      q == a \div u
      r == a % u
      n == IF 2 * r > u \/ (2 * r = u /\ q % 2 = 1) THEN q + 1 ELSE q
  IN  IF v < 0 THEN -(n * u) ELSE n * u

\* an exact fraction
Quot(n, d) == [num |-> n, den |-> d]
RatAdd(a, b) == [num |-> a.num * b.den + b.num * a.den, den |-> a.den * b.den]
RatScale(k, a) == [num |-> k * a.num, den |-> a.den]
\* an entry of np.empty(...) that was never written
Uninit == [num |-> 0, den |-> 0]

\* ---------------------------------------------------------- the callables
\* The callables handed to __init__ are deterministic functions of x.
\* Callable id is the quadratic  id + SUM_j (id * x_j^2 + (id + j) * x_j).
RECURSIVE FnSum(_, _, _)
FnSum(id, x, j) ==
  IF j = 0 THEN 0
  ELSE id * x[j] * x[j] + (id + j) * x[j] + FnSum(id, x, j - 1)

Fn(id, x) == id + FnSum(id, x, Len(x))

\* The analytic gradient callable of callable id.
GradFn(id, x) == [j \in 1..Len(x) |-> Quot(2 * id * x[j] + id + j, 1)]

\* -------------------------------------------------- OptimisationProblem
IneqIds(k) == [j \in 1..k |-> j]
EqIds(k) == [j \in 1..k |-> 10 + j]

\* __init__: every argument is stored as given, nothing is validated
OptimisationProblem(objective, grad_objective, i_constraints, grad_i_constraints, e_constraints, grad_e_constraints) ==
  [objective |-> objective, grad_objective |-> grad_objective,
   i_constraints |-> i_constraints, grad_i_constraints |-> grad_i_constraints,
   e_constraints |-> e_constraints, grad_e_constraints |-> grad_e_constraints]

m(p) == Len(OrEmpty(p.i_constraints))
me(p) == Len(OrEmpty(p.e_constraints))
constrained(p) == m(p) + me(p) > 0

\* -------------------------------------------------------- call results
\* What a call hands back: a value or an exception, the branch taken in
\* compute_grad_constraints ("none" | "analytic" | "fd"), the counter after the
\* call, the points at which the callables were evaluated by a finite
\* difference loop, and the caller's array x after the call.
Result(ok, err, val, path, count, evals, x_after) ==
  [ok |-> ok, err |-> err, val |-> val, path |-> path, count |-> count,
   evals |-> evals, x_after |-> x_after]

\* Python indexing of a list of length len with index i (negative: from the end)
PyIndexOK(len, i) == -len <= i /\ i < len
PyPos(len, i) == IF i < 0 THEN len + i + 1 ELSE i + 1

\* np.copy(x): a fresh array, not the caller's
np_copy(x) == [x |-> x, x_local |-> x, alias |-> FALSE]
\* x_local[i] = v
Store(mem, i, v) ==
  [mem EXCEPT !.x_local[i] = v, !.x[i] = IF mem.alias THEN v ELSE @]

\* x_local[i] -= dx
step_back(mem, i, dx) == Store(mem, i, fl(mem.x_local[i] - dx))
\* x_local[i] += 2 * dx
step_forward(mem, i, dx) == Store(mem, i, fl(mem.x_local[i] + 2 * dx))

\* ----------------------------------------------------- compute_objective
compute_objective(p, x) == Fn(p.objective, x)

\* ------------------------------------------------ compute_grad_objective
\* grad[i] = (f_forward - f_backward) / (2 * dx)
central_difference(forward, backward, dx) == Quot(forward - backward, 2 * dx)

RECURSIVE fd_objective_loop(_, _, _, _, _, _)
fd_objective_loop(p, mem, dx, i, grad, evals) ==
  IF i > Len(mem.x_local) THEN [grad |-> grad, evals |-> evals, mem |-> mem]
  ELSE
    LET m1 == step_back(mem, i, dx)
        f_backward == compute_objective(p, m1.x_local)
        m2 == step_forward(m1, i, dx)
        f_forward == compute_objective(p, m2.x_local)
        \* x_local[i] = x[i]
        m3 == Store(m2, i, m2.x[i])
    IN  fd_objective_loop(p, m3, dx, i + 1,
          Append(grad, central_difference(f_forward, f_backward, dx)),
          evals \o <<m1.x_local, m2.x_local>>)

compute_grad_objective(p, x, dx, count) ==
  IF p.grad_objective.some
  THEN Result(TRUE, "", GradFn(p.grad_objective.v[1], x), "none", count, <<>>, x)
  ELSE
    LET r == fd_objective_loop(p, np_copy(x), dx, 1, <<>>, <<>>)
    IN  Result(TRUE, "", r.grad, "none", count, r.evals, r.mem.x)

\* --------------------------------------------------- compute_constraints
\* a check that only asks whether the lists were passed at all
no_constraints_none_only(p) == ~p.i_constraints.some /\ ~p.e_constraints.some

\* if self.m + self.me == 0: raise
no_constraints(p) == m(p) + me(p) = 0

\* (self._i_constraints or []) + (self._e_constraints or [])
concat_constraints(p) == OrEmpty(p.i_constraints) \o OrEmpty(p.e_constraints)

\* [c for i, c in enumerate(lst) if i in selection]: list order, no repeats
select_by_membership(lst, selection) ==
  LET idx == {PyPos(Len(lst), selection[k]) : k \in 1..Len(selection)}
  IN  IF \E k \in 1..Len(selection) : ~PyIndexOK(Len(lst), selection[k])
      THEN [ok |-> FALSE, val |-> <<>>]
      ELSE [ok |-> TRUE, val |-> SelectSeq(lst, LAMBDA c : \E k \in idx : lst[k] = c)]

\* [lst[i] for i in selection], or an IndexError
select(lst, selection) ==
  IF \E k \in 1..Len(selection) : ~PyIndexOK(Len(lst), selection[k])
  THEN [ok |-> FALSE, val |-> <<>>]
  ELSE [ok |-> TRUE,
        val |-> [k \in 1..Len(selection) |-> lst[PyPos(Len(lst), selection[k])]]]

compute_constraints(p, x, selection, count) ==
  IF no_constraints(p)
  THEN Result(FALSE, "Unconstrained problem.", <<>>, "none", count, <<>>, x)
  ELSE
    LET constraints == concat_constraints(p)
        chosen == IF selection.some THEN select(constraints, selection.v)
                  ELSE [ok |-> TRUE, val |-> constraints]
    IN  IF ~chosen.ok
        THEN Result(FALSE, "IndexError: selection", <<>>, "none", count, <<>>, x)
        ELSE Result(TRUE, "", [k \in 1..Len(chosen.val) |-> Fn(chosen.val[k], x)],
                    "none", count, <<>>, x)

\* ---------------------------------------------- compute_grad_constraints
\* self._grad_i_constraints is not None or self._grad_e_constraints is not None
has_analytic_grad_constraints(p) ==
  p.grad_i_constraints.some \/ p.grad_e_constraints.some

\* (self._grad_i_constraints or []) + (self._grad_e_constraints or [])
concat_grad_constraints(p) ==
  OrEmpty(p.grad_i_constraints) \o OrEmpty(p.grad_e_constraints)

\* np.empty((rows, cols))
np_empty(rows, cols) == [k \in 1..rows |-> [j \in 1..cols |-> Uninit]]
\* grad[:, i] = col
SetColumn(grad, i, col) == [k \in 1..Len(grad) |-> [grad[k] EXCEPT ![i] = col[k]]]

\* a counter bumped before the branch on the analytic lists
grad_constraints_evaluations_after_any(count, path) == count + 1

\* the counter after a call that returns through branch path
grad_constraints_evaluations_after(count, path) ==
  IF path = "fd" THEN count + 1 ELSE count

\* (g_forward - g_backward) / (2 * dx)
difference_column(g_forward, g_backward, dx) ==
  [k \in 1..Len(g_forward) |-> central_difference(g_forward[k], g_backward[k], dx)]

\* the loop over the coordinates from i on; fd_constraints_pass is its body
\* once the two perturbed arrays m1, m2 and the two constraint vectors are known
RECURSIVE fd_constraints_loop(_, _, _, _, _, _, _)
fd_constraints_pass(p, m1, m2, g_backward, g_forward, dx, selection, i, grad, evals) ==
  IF ~g_backward.ok
  THEN [ok |-> FALSE, grad |-> grad, evals |-> evals, mem |-> m1]
  ELSE IF ~g_forward.ok
  THEN [ok |-> FALSE, grad |-> grad, evals |-> Append(evals, m1.x_local), mem |-> m2]
  ELSE fd_constraints_loop(p, step_back(m2, i, dx), dx, selection, i + 1,
         SetColumn(grad, i, difference_column(g_forward.val, g_backward.val, dx)),
         evals \o <<m1.x_local, m2.x_local>>)

fd_constraints_at(p, m1, m2, dx, selection, i, grad, evals) ==
  fd_constraints_pass(p, m1, m2,
                      compute_constraints(p, m1.x_local, selection, 0),
                      compute_constraints(p, m2.x_local, selection, 0),
                      dx, selection, i, grad, evals)

fd_constraints_loop(p, mem, dx, selection, i, grad, evals) ==
  IF i > Len(mem.x_local)
  THEN [ok |-> TRUE, grad |-> grad, evals |-> evals, mem |-> mem]
  ELSE fd_constraints_at(p, step_back(mem, i, dx),
                         step_forward(step_back(mem, i, dx), i, dx),
                         dx, selection, i, grad, evals)

\* the analytic branch, once the gradient callables are chosen
analytic_jacobian(chosen, x, count) ==
  IF ~chosen.ok
  THEN Result(FALSE, "IndexError: selection", <<>>, "analytic", count, <<>>, x)
  ELSE Result(TRUE, "", [k \in 1..Len(chosen.val) |-> GradFn(chosen.val[k], x)],
              "analytic", grad_constraints_evaluations_after(count, "analytic"),
              <<>>, x)

\* the finite difference branch, once the loop r has run
fd_jacobian(r, count) ==
  IF ~r.ok
  THEN Result(FALSE, "IndexError: selection", <<>>, "fd", count, r.evals, r.mem.x)
  ELSE Result(TRUE, "", r.grad, "fd",
              grad_constraints_evaluations_after(count, "fd"), r.evals, r.mem.x)

compute_grad_constraints(p, x, dx, selection, count) ==
  IF no_constraints(p)
  THEN Result(FALSE, "Unconstrained problem.", <<>>, "none", count, <<>>, x)
  ELSE IF has_analytic_grad_constraints(p)
  THEN analytic_jacobian(IF selection.some
                         THEN select(concat_grad_constraints(p), selection.v)
                         ELSE [ok |-> TRUE, val |-> concat_grad_constraints(p)],
                         x, count)
  ELSE fd_jacobian(fd_constraints_loop(p, np_copy(x), dx, selection, 1,
                     np_empty(IF selection.some THEN Len(selection.v)
                              ELSE m(p) + me(p), Len(x)),
                     <<>>),
                   count)

\* ---------------------------------------------- compute_lagrange_function
\* for i in range(self.m)
lagrange_range_inequalities_only(p) == m(p)

\* for i in range(self.m + self.me)
lagrange_range(p) == m(p) + me(p)
\* the multiplier left out
lagrange_term_unweighted(lm_i, g_i) == g_i

\* lm[i] * g[i]
lagrange_term(lm_i, g_i) == lm_i * g_i

\* the loop from Python index i on; lm[i] raises IndexError past the end of lm
RECURSIVE lagrange_loop(_, _, _, _, _)
lagrange_loop(f, lm, g, i, n) ==
  IF i >= n THEN [ok |-> TRUE, val |-> f]
  ELSE IF i >= Len(lm) THEN [ok |-> FALSE, val |-> f]
  ELSE lagrange_loop(f + lagrange_term(lm[i + 1], g[i + 1]), lm, g, i + 1, n)

compute_lagrange_function(p, x, lm, count) ==
  LET f == Fn(p.objective, x)
  IN  IF m(p) + me(p) > 0
      THEN LET g == compute_constraints(p, x, None, count)
               r == lagrange_loop(f, lm, g.val, 0, lagrange_range(p))
           IN  IF r.ok THEN Result(TRUE, "", r.val, "none", count, <<>>, x)
               ELSE Result(FALSE, "IndexError: lm", <<>>, "none", count, <<>>, x)
      ELSE Result(TRUE, "", f, "none", count, <<>>, x)

\* ----------------------------------------- compute_grad_lagrange_function
\* grad += lm[i] * grad_g[i]
grad_lagrange_step(grad, lm_i, row) ==
  [j \in 1..Len(grad) |-> RatAdd(grad[j], RatScale(lm_i, row[j]))]

\* lm[i] is evaluated before grad_g[i]; either raises IndexError past its end
RECURSIVE grad_lagrange_loop(_, _, _, _, _)
grad_lagrange_loop(grad, lm, grad_g, i, n) ==
  IF i >= n THEN [ok |-> TRUE, err |-> "", val |-> grad]
  ELSE IF i >= Len(lm) THEN [ok |-> FALSE, err |-> "IndexError: lm", val |-> grad]
  ELSE IF i >= Len(grad_g) THEN [ok |-> FALSE, err |-> "IndexError: grad_g", val |-> grad]
  ELSE grad_lagrange_loop(grad_lagrange_step(grad, lm[i + 1], grad_g[i + 1]),
                          lm, grad_g, i + 1, n)

\* the result, once the gradient of the objective, the Jacobian and the loop r
\* are known; the counter is the one the Jacobian call left
grad_lagrange_result(grad, grad_g, r) ==
  Result(r.ok, r.err, IF r.ok THEN r.val ELSE <<>>, grad_g.path, grad_g.count,
         grad.evals \o grad_g.evals, grad_g.x_after)

grad_lagrange_constrained(p, lm, grad, grad_g) ==
  IF ~grad_g.ok
  THEN Result(FALSE, grad_g.err, <<>>, grad_g.path, grad_g.count,
              grad.evals \o grad_g.evals, grad_g.x_after)
  ELSE grad_lagrange_result(grad, grad_g,
         grad_lagrange_loop(grad.val, lm, grad_g.val, 0, lagrange_range(p)))

compute_grad_lagrange_function(p, x, lm, count) ==
  IF m(p) + me(p) > 0
  THEN grad_lagrange_constrained(p, lm,
         compute_grad_objective(p, x, dx_default, count),
         compute_grad_constraints(p, x, dx_default, None, count))
  ELSE compute_grad_objective(p, x, dx_default, count)

\* ------------------------------------------------------------ the inputs
Big == Pow2(MantBits)
\* design vectors: x.size from 0 to 2
XSet == {<<>>, <<3>>, <<Big>>, <<3, Big>>, <<Big, 3>>, <<Big, Big>>}
DxSet == {dx_default, 2 * dx_default}

SeqsUpTo(S, n) == UNION {[1..k -> S] : k \in 0..n}

\* selections: none, lists of valid indices, and lists that hold a negative
\* index or an index past the end
SelectionSet(p) ==
  LET n == m(p) + me(p)
  IN  {None} \cup {Some(s) : s \in SeqsUpTo(0..(n - 1), MaxSel)}
             \cup {Some(<<-1>>), Some(<<n>>)}

LmSet == {[i \in 1..k |-> w + i] : k \in 0..MaxLm, w \in {0, 2}}

\* constraint lists, and for each the gradient lists a caller may pass with it
\* (none, of the same length, one shorter, one longer)
IneqLists == {None} \cup {Some(IneqIds(k)) : k \in 0..MaxM}
EqLists == {None} \cup {Some(EqIds(k)) : k \in 0..MaxMe}
GradLengths(lst) == {k \in 0..(Len(OrEmpty(lst)) + 1) : k >= Len(OrEmpty(lst)) - 1}
GradIneqLists(lst) == {None} \cup {Some(IneqIds(k)) : k \in GradLengths(lst)}
GradEqLists(lst) == {None} \cup {Some(EqIds(k)) : k \in GradLengths(lst)}

ProblemSet ==
  UNION {UNION {{OptimisationProblem(7, go, ic, gic, ec, gec) :
                    go \in {None, Some(<<7>>)},
                    gic \in GradIneqLists(ic), gec \in GradEqLists(ec)} :
                ic \in IneqLists} : ec \in EqLists}

NoCall ==
  [op |-> "none", x |-> <<>>, dx |-> 0, selection |-> None, lm |-> <<>>,
   result |-> Result(TRUE, "", <<>>, "none", 0, <<>>, <<>>)]

\* ------------------------------------------- the caller of the problem
Invoke(op, x, dx, selection, lm, result) ==
  /\ pc = "idle"
  /\ call' = [op |-> op, x |-> x, dx |-> dx, selection |-> selection, lm |-> lm,
              result |-> result]
  /\ grad_constraints_evaluations' = result.count
  /\ pc' = "returned"
  /\ UNCHANGED <<problem, optimiser_vars>>

ComputeObjective ==
  \E x \in XSet :
    Invoke("compute_objective", x, 0, None, <<>>,
           Result(TRUE, "", compute_objective(problem, x), "none",
                  grad_constraints_evaluations, <<>>, x))

ComputeGradObjective ==
  \E x \in XSet, dx \in DxSet :
    Invoke("compute_grad_objective", x, dx, None, <<>>,
           compute_grad_objective(problem, x, dx, grad_constraints_evaluations))

ComputeConstraints ==
  \E x \in XSet, selection \in SelectionSet(problem) :
    Invoke("compute_constraints", x, 0, selection, <<>>,
           compute_constraints(problem, x, selection, grad_constraints_evaluations))

ComputeGradConstraints ==
  /\ grad_constraints_evaluations < MaxCalls
  /\ \E x \in XSet, dx \in DxSet, selection \in SelectionSet(problem) :
       Invoke("compute_grad_constraints", x, dx, selection, <<>>,
              compute_grad_constraints(problem, x, dx, selection,
                                       grad_constraints_evaluations))

ComputeLagrangeFunction ==
  \E x \in XSet, lm \in LmSet :
    Invoke("compute_lagrange_function", x, 0, None, lm,
           compute_lagrange_function(problem, x, lm, grad_constraints_evaluations))

ComputeGradLagrangeFunction ==
  /\ grad_constraints_evaluations < MaxCalls
  /\ \E x \in XSet, lm \in LmSet :
       Invoke("compute_grad_lagrange_function", x, dx_default, None, lm,
              compute_grad_lagrange_function(problem, x, lm,
                                             grad_constraints_evaluations))

\* the caller is done with what the call handed back
Return ==
  /\ pc = "returned"
  /\ pc' = "idle"
  /\ call' = NoCall
  /\ UNCHANGED <<problem, grad_constraints_evaluations, optimiser_vars>>

OptimiserIdle ==
  /\ caller_x = <<>> /\ x_own = <<>> /\ x_ref = "caller" /\ x_initial = <<>>
  /\ caller_wrote = <<>>
  /\ opt_pc = "constructed" /\ algorithm = "" /\ iteration_limit = 0
  /\ history = <<>> /\ iterations = -1

Init ==
  /\ problem \in ProblemSet
  /\ grad_constraints_evaluations = 0
  /\ pc = "idle"
  /\ call = NoCall
  /\ OptimiserIdle

Next ==
  \/ ComputeObjective
  \/ ComputeGradObjective
  \/ ComputeConstraints
  \/ ComputeGradConstraints
  \/ ComputeLagrangeFunction
  \/ ComputeGradLagrangeFunction
  \/ Return

Spec == Init /\ [][Next]_vars

\* ----------------------------------------------------- OptimisationResult
OptimiserState ==
  {"CONVERGED", "DIVERGED", "ENCOUNTERED_INF", "ENCOUNTERED_NAN", "INFEASIBLE",
   "NOT_STARTED", "REACHED_MAX_ITERATIONS", "RUNNING", "UNDEFINED"}

\* a result built without its state argument: the dataclass default applies
OptimisationResult_default_state(iteration, x, state) ==
  [iteration |-> iteration, x |-> x, state |-> "UNDEFINED"]

\* the frozen dataclass (state defaults to UNDEFINED when it is not passed)
OptimisationResult(iteration, x, state) ==
  [iteration |-> iteration, x |-> x, state |-> state]

\* -------------------------------------------------------------- Optimiser
\* the algorithm names the tests pass to optimise
Algorithms == {"STEEPEST_DESCENT", "SQP", "MMA"}
\* the states that end a run
TerminalStates ==
  {"CONVERGED", "DIVERGED", "ENCOUNTERED_INF", "ENCOUNTERED_NAN", "INFEASIBLE",
   "REACHED_MAX_ITERATIONS"}

\* a constructor that keeps an array of its own: x_ref names the copy
Optimiser_init_copy(x) == [x_ref |-> "own", x_own |-> x]

\* Optimiser(problem, x): the tests read the optimum out of the very array x
\* they passed in, so the optimiser's design vector is that array
Optimiser_init(x) == [x_ref |-> "caller", x_own |-> <<>>]

\* the optimiser's design vector
Optimiser_x == IF x_ref = "caller" THEN caller_x ELSE x_own

\* the bookkeeping after a step, first rule that applies
bookkeeping(outcome, iteration, limit) ==
  IF outcome = "nan" THEN "ENCOUNTERED_NAN"
  ELSE IF outcome = "inf" THEN "ENCOUNTERED_INF"
  ELSE IF iteration >= limit THEN "REACHED_MAX_ITERATIONS"
  ELSE IF outcome = "converged" THEN "CONVERGED"
  ELSE IF outcome = "diverged" THEN "DIVERGED"
  ELSE IF outcome = "infeasible" THEN "INFEASIBLE"
  ELSE "RUNNING"

Outcomes == {"nan", "inf", "converged", "diverged", "infeasible", "progress"}
\* initial points and steps of an algorithm
X0Set == {<<2, 2>>, <<4, 4>>}
StepSet == {<<-1, -1>>, <<-1, 0>>, <<1, 1>>}
VecAdd(a, b) == [j \in 1..Len(a) |-> a[j] + b[j]]

\* the caller stores into the array it passed, before it calls optimise
CallerMutates ==
  /\ opt_pc = "constructed"
  /\ caller_x = x_initial
  /\ caller_x' = [caller_x EXCEPT ![1] = 9]
  /\ caller_wrote' = caller_x'
  /\ UNCHANGED <<x_own, x_ref, x_initial, opt_pc, algorithm, iteration_limit,
                 history, iterations, problem_vars>>

\* optimise(algorithm, iteration_limit): the history starts with the
\* iteration-0 entry
Optimise ==
  /\ opt_pc = "constructed"
  /\ \E a \in Algorithms, limit \in 1..MaxIter :
       /\ algorithm' = a
       /\ iteration_limit' = limit
  /\ history' = <<OptimisationResult(0, Optimiser_x, "NOT_STARTED")>>
  /\ opt_pc' = "running"
  /\ UNCHANGED <<caller_x, x_own, x_ref, x_initial, caller_wrote, iterations,
                 problem_vars>>

\* one iteration: the design vector is updated in place, the bookkeeping sets
\* the state, the result is appended, and a terminal state ends the run
Step ==
  /\ opt_pc = "running"
  /\ \E step \in StepSet, outcome \in Outcomes :
       LET iteration == Len(history)
           x_new == VecAdd(Optimiser_x, step)
           state == bookkeeping(outcome, iteration, iteration_limit)
       IN  /\ IF x_ref = "caller"
              THEN caller_x' = x_new /\ x_own' = x_own
              ELSE x_own' = x_new /\ caller_x' = caller_x
           /\ history' = Append(history, OptimisationResult(iteration, x_new, state))
           /\ IF state \in TerminalStates
              THEN opt_pc' = "done" /\ iterations' = iteration
              ELSE opt_pc' = "running" /\ iterations' = iterations
  /\ UNCHANGED <<x_ref, x_initial, caller_wrote, algorithm, iteration_limit,
                 problem_vars>>

InitOptimiser ==
  /\ problem = OptimisationProblem(7, None, None, None, None, None)
  /\ grad_constraints_evaluations = 0
  /\ pc = "idle"
  /\ call = NoCall
  /\ \E x \in X0Set :
       /\ caller_x = x /\ x_initial = x /\ caller_wrote = x
       /\ x_ref = Optimiser_init(x).x_ref
       /\ x_own = Optimiser_init(x).x_own
  /\ opt_pc = "constructed" /\ algorithm = "" /\ iteration_limit = 0
  /\ history = <<>> /\ iterations = -1

NextOptimiser ==
  \/ CallerMutates
  \/ Optimise
  \/ Step

SpecOptimiser == InitOptimiser /\ [][NextOptimiser]_vars /\ WF_vars(Step)

\* ================================================================ claims
\* the constraint callables in the concatenated ordering, inequalities first
ExpectedIds(p) ==
  [k \in 1..(m(p) + me(p)) |->
     IF k <= m(p) THEN p.i_constraints.v[k] ELSE p.e_constraints.v[k - m(p)]]
ExpectedFull(p, x) == [k \in 1..(m(p) + me(p)) |-> Fn(ExpectedIds(p)[k], x)]
AllValid(p, selection) ==
  \A k \in 1..Len(selection) : PyIndexOK(m(p) + me(p), selection[k])
\* the callables a call with this selection is about
SelectedIds(p, selection) ==
  IF selection.some
  THEN [k \in 1..Len(selection.v) |->
          ExpectedIds(p)[PyPos(m(p) + me(p), selection.v[k])]]
  ELSE ExpectedIds(p)
\* every gradient list that was passed holds one gradient per constraint of
\* its (non-empty) constraint list
WellFormed(p) ==
  /\ p.grad_i_constraints.some => (m(p) > 0 /\ Len(p.grad_i_constraints.v) = m(p))
  /\ p.grad_e_constraints.some => (me(p) > 0 /\ Len(p.grad_e_constraints.v) = me(p))

\* C1: on a problem without constraints (m = me = 0) every call of
\* compute_constraints and of compute_grad_constraints raises the
\* "Unconstrained problem." error, whatever x and selection are and whether
\* or not gradient lists were passed.
C1_UnconstrainedAlwaysFails ==
  (/\ call.op \in {"compute_constraints", "compute_grad_constraints"}
   /\ m(problem) + me(problem) = 0)
  => (~call.result.ok /\ call.result.err = "Unconstrained problem.")

C1_Witness ==
  /\ call.op = "compute_grad_constraints"
  /\ problem.i_constraints.some /\ m(problem) + me(problem) = 0
  /\ problem.grad_i_constraints.some /\ Len(problem.grad_i_constraints.v) > 0
  /\ call.selection.some /\ Len(call.selection.v) > 0
  /\ Len(call.x) > 0
  /\ ~call.result.ok

\* C2: on a constrained problem, compute_constraints(x, selection) with a
\* list of valid indices returns len(selection) values, the k-th being
\* full[selection[k]], where full = compute_constraints(x) holds the
\* inequality values followed by the equality values.
C2_SelectionOrderAndLength ==
  (/\ call.op = "compute_constraints"
   /\ constrained(problem)
   /\ call.selection.some
   /\ AllValid(problem, call.selection.v))
  => LET full == compute_constraints(problem, call.x, None, 0).val
     IN  /\ full = ExpectedFull(problem, call.x)
         /\ call.result.ok
         /\ Len(call.result.val) = Len(call.selection.v)
         /\ \A k \in 1..Len(call.selection.v) :
              call.result.val[k] = full[PyPos(Len(full), call.selection.v[k])]

C2_Witness ==
  /\ call.op = "compute_constraints"
  /\ m(problem) = 1 /\ me(problem) = 1
  /\ call.selection = Some(<<1, 0>>)
  /\ Len(call.x) = 2
  /\ call.result.ok /\ Len(call.result.val) = 2
  /\ call.result.val[1] # call.result.val[2]

\* a call in which a compute_grad_constraints call ran its finite difference
\* path to the end
FdCompleted(c) ==
  /\ c.op \in {"compute_grad_constraints", "compute_grad_lagrange_function"}
  /\ c.result.path = "fd"
  /\ c.result.err \notin {"Unconstrained problem.", "IndexError: selection"}

\* C3: grad_constraints_evaluations starts at 0; a step adds exactly 1 when a
\* compute_grad_constraints call (direct, or made by
\* compute_grad_lagrange_function) completed on the finite difference path,
\* and every other step (analytic path, a failing call, any other operation)
\* leaves it unchanged.
C3_CounterCountsFdCalls ==
  /\ grad_constraints_evaluations = 0
  /\ [][grad_constraints_evaluations' =
          grad_constraints_evaluations + (IF FdCompleted(call') THEN 1 ELSE 0)]_vars

C3_Witness ==
  /\ grad_constraints_evaluations = 2
  /\ call.op = "compute_grad_lagrange_function"
  /\ call.result.path = "fd"
  /\ Len(call.x) = 2
  /\ m(problem) + me(problem) = 2

\* C4: on a constrained problem with well-formed gradient lists (neither,
\* one or both passed) compute_grad_constraints(x, selection) returns one row
\* per value of compute_constraints(x, selection), and row k is the gradient
\* of the constraint whose value is entry k.
C4_JacobianRowsMatchConstraints ==
  (/\ call.op = "compute_grad_constraints"
   /\ constrained(problem)
   /\ WellFormed(problem)
   /\ call.selection.some => AllValid(problem, call.selection.v))
  => LET g == compute_constraints(problem, call.x, call.selection, 0)
         ids == SelectedIds(problem, call.selection)
         ev == call.result.evals
     IN  /\ call.result.ok
         /\ Len(call.result.val) = Len(g.val)
         /\ \A k \in 1..Len(g.val) :
              IF call.result.path = "analytic"
              THEN call.result.val[k] = GradFn(ids[k], call.x)
              ELSE \A j \in 1..Len(call.x) :
                     call.result.val[k][j] =
                       Quot(Fn(ids[k], ev[2 * j]) - Fn(ids[k], ev[2 * j - 1]),
                            2 * call.dx)

\* a gradient list passed along with its constraint list, of another length
Malformed(p) ==
  \/ /\ p.i_constraints.some /\ p.grad_i_constraints.some
     /\ Len(p.grad_i_constraints.v) # Len(p.i_constraints.v)
  \/ /\ p.e_constraints.some /\ p.grad_e_constraints.some
     /\ Len(p.grad_e_constraints.v) # Len(p.e_constraints.v)

\* C5: on a (constrained) problem whose gradient list differs in length from
\* its constraint list, no compute_grad_constraints or
\* compute_grad_lagrange_function call returns a result.
C5_MalformedProblemRaises ==
  (/\ call.op \in {"compute_grad_constraints", "compute_grad_lagrange_function"}
   /\ constrained(problem)
   /\ Malformed(problem))
  => ~call.result.ok

\* C6: on a constrained problem compute_lagrange_function and
\* compute_grad_lagrange_function fail when len(lm) < m + me, and never fail
\* on the multiplier vector when len(lm) >= m + me.
C6_MultiplierLength ==
  (/\ call.op \in {"compute_lagrange_function", "compute_grad_lagrange_function"}
   /\ constrained(problem))
  => /\ Len(call.lm) < m(problem) + me(problem) => ~call.result.ok
     /\ Len(call.lm) >= m(problem) + me(problem) => call.result.err # "IndexError: lm"

C6_Witness ==
  /\ call.op = "compute_grad_lagrange_function"
  /\ m(problem) + me(problem) = 2
  /\ Len(call.lm) = 1
  /\ ~call.result.ok

RECURSIVE WeightedSum(_, _, _)
WeightedSum(lm, g, k) ==
  IF k = 0 THEN 0 ELSE lm[k] * g[k] + WeightedSum(lm, g, k - 1)

\* C7: with len(lm) >= m + me, compute_lagrange_function(x, lm) returns
\* objective(x) + SUM_{i < m + me} lm[i] * g[i] over the inequality-then-equality
\* values g; further entries of lm play no part, and on an unconstrained
\* problem the value is objective(x) and nothing is raised.
C7_LagrangeValue ==
  (/\ call.op = "compute_lagrange_function"
   /\ Len(call.lm) >= m(problem) + me(problem))
  => /\ call.result.ok
     /\ call.result.val =
          Fn(problem.objective, call.x)
          + WeightedSum(call.lm, ExpectedFull(problem, call.x), m(problem) + me(problem))

C7_Witness ==
  /\ call.op = "compute_lagrange_function"
  /\ m(problem) = 1 /\ me(problem) = 1
  /\ Len(call.lm) = 3
  /\ Len(call.x) = 2
  /\ call.result.ok
  /\ call.result.val # Fn(problem.objective, call.x)

\* C10: a finite difference loop over an n-dimensional x makes 2n
\* evaluations, those for coordinate i at x - dx*e_i and x + dx*e_i with all
\* other coordinates equal to x; component i is (forward - backward)/(2*dx);
\* the caller's x is unchanged.
C10_CentralDifferencePoints ==
  (\/ call.op = "compute_grad_objective" /\ ~problem.grad_objective.some
   \/ /\ call.op = "compute_grad_constraints"
      /\ call.result.path = "fd" /\ call.result.ok)
  => LET x == call.x
         ev == call.result.evals
         ids == IF call.op = "compute_grad_objective" THEN <<problem.objective>>
                ELSE SelectedIds(problem, call.selection)
         rows == IF call.op = "compute_grad_objective" THEN <<call.result.val>>
                 ELSE call.result.val
     IN  /\ Len(ev) = 2 * Len(x)
         /\ \A i \in 1..Len(x) :
              /\ ev[2 * i - 1] = [x EXCEPT ![i] = fl(x[i] - call.dx)]
              /\ ev[2 * i] = [x EXCEPT ![i] = fl(x[i] + call.dx)]
              /\ \A k \in 1..Len(ids) :
                   rows[k][i] = Quot(Fn(ids[k], ev[2 * i]) - Fn(ids[k], ev[2 * i - 1]),
                                     2 * call.dx)
         /\ call.result.x_after = x

====
